---- MODULE Spec2Model ----
(***************************************************************************)
(* Model of simplex_noise_2d.js: the seeded permutation tables (seed,      *)
(* splitmix32), the 2D simplex noise kernel (noise, grad) and the fBm      *)
(* compositor (fbm).                                                       *)
(*                                                                         *)
(* Number representation.                                                  *)
(*  - A JavaScript int32 value is an Int in -2^31 .. 2^31-1.  A uint32     *)
(*    value, which does not fit, is a pair <<hi, lo>> of 16-bit limbs.     *)
(*    Every intermediate is kept below 2^31.                               *)
(***************************************************************************)
EXTENDS Integers, Sequences, FiniteSets, TLC

VARIABLES perm, permMod12, last, calls, rngA, rngOut, rngN

vars == <<perm, permMod12, last, calls, rngA, rngOut, rngN>>

tableVars == <<perm, permMod12>>

rngVars == <<rngA, rngOut, rngN>>

\* ------------------------------------------------------------ bounds

\* Calls of seed, noise and fbm made in one behaviour of Spec.
MaxCalls == 2

\* Draws taken from one generator in one behaviour of SpecRng.
MaxDraws == 40

\* The largest number of octaves passed to fbm.
MaxOctaves == 3

\* Seed values passed to seed() and splitmix32(): int32 values, among them
\* negative ones and ones whose mixing steps set the sign bit.
Seeds == {0, 1337, -1, 2147483647}

\* ------------------------------------------------------------ 32-bit words

Max(m, n) == IF m >= n THEN m ELSE n

Min(m, n) == IF m <= n THEN m ELSE n

\* A word is two 16-bit limbs.
Limb == 2 ^ 16

SignBit == 2 ^ 15

\* x ^ y on n-bit non-negative operands, n a power of two: bit by bit, the
\* low half of the bits and then the high half.
RECURSIVE XorBits(_, _, _)
XorBits(x, y, n) ==
    IF n = 1 THEN (x + y) % 2
    ELSE LET h == 2 ^ (n \div 2)
         IN XorBits(x % h, y % h, n \div 2) + h * XorBits(x \div h, y \div h, n \div 2)

\* The unsigned 16-bit limbs of an int32 value (ToUint32, limb by limb).
UHi(a) == (a \div Limb) % Limb

ULo(a) == a % Limb

\* ToInt32 of the 32-bit pattern hi:lo, the result of every JavaScript
\* bitwise operator except >>>.
ToInt32(hi, lo) ==
    IF hi >= SignBit THEN (hi - Limb) * Limb + lo ELSE hi * Limb + lo

\* 0x9e3779b9, the addend of line 167, as limbs.
GoldenHi == 40503

GoldenLo == 31161

\* 0x21f0aaad and 0x735a2d97, the multipliers of lines 168 and 169 (both
\* below 2^31, so int32 values as written).
Mul1 == 569420461

Mul2 == 1935289751

\* a + c | 0 for an int32 a and the number c = chi:clo (line 167): the sum
\* is taken as a number and ToInt32 keeps its low 32 bits.
AddOrZero(a, chi, clo) ==
    LET lo == ULo(a) + clo
        hi == UHi(a) + chi + lo \div Limb
    IN ToInt32(hi % Limb, lo % Limb)

\* Faulty variant of Ushr: a >> n, which fills with the sign bit.
Sshr(a, n) == a \div 2 ^ n

\* a >>> n for 1 <= n <= 16: ToUint32(a) shifted right with zero fill.  The
\* result is below 2^31 and so an int32 value again.
Ushr(a, n) ==
    LET p == 2 ^ n
    IN UHi(a) * (Limb \div p) + ULo(a) \div p

\* a ^ b on int32 values.
Xor(a, b) == ToInt32(XorBits(UHi(a), UHi(b), 16), XorBits(ULo(a), ULo(b), 16))

\* The low 32 bits of x * y for 16-bit x and y, as limbs <<hi, lo>>.
Mul16(x, y) ==
    LET y0 == y % 256
        y1 == y \div 256
        A == x * y0
        B == x * y1
        low == A + (B % 256) * 256
    IN <<(B \div 256 + low \div Limb) % Limb, low % Limb>>

\* Math.imul(a, b): the low 32 bits of the product, as an int32.
imul(a, b) ==
    LET ll == Mul16(ULo(a), ULo(b))
        hl == Mul16(UHi(a), ULo(b))
        lh == Mul16(ULo(a), UHi(b))
    IN ToInt32((ll[1] + hl[2] + lh[2]) % Limb, ll[2])

\* a = a + 0x9e3779b9 | 0, line 167.
advanced(a) == AddOrZero(a, GoldenHi, GoldenLo)

\* var t = a ^ a >>> 16; t = Math.imul(t, 0x21f0aaad), line 168.
mixed16(a) == imul(Xor(a, Ushr(a, 16)), Mul1)

\* t ^ t >>> 15, lines 169 and 170.
xorShifted(t) == Xor(t, Ushr(t, 15))

\* t = t ^ t >>> 15; t = Math.imul(t, 0x735a2d97), line 169.
mixed15(t) == imul(xorShifted(t), Mul2)

\* t >>> 0, line 170: a uint32, as limbs.
unsigned(t) == <<UHi(t), ULo(t)>>

\* What a call leaves and returns for the advanced state a.  a: the state
\* the closure keeps; t: the numerator of the returned number
\* ((t = t ^ t >>> 15) >>> 0) / 4294967296.
drawn(a) == [a |-> a, t |-> unsigned(xorShifted(mixed15(mixed16(a))))]

\* One call of the closure splitmix32 returns, lines 166-171, on the captured
\* state a0.
random(a0) == drawn(advanced(a0))

\* splitmix32(a): the initial captured state of the closure.  a |= 0 of the
\* first call is the identity on an int32 seed.
splitmix32(a) == a

\* ~~(random() * n) for the number t/2^32 returned by random() and an
\* integer 1 <= n <= 256: t/2^32 and its product with n are exact in binary64
\* (t * n < 2^41), so the truncation is floor(t * n / 2^32).
TruncScaled(t, n) == (t[1] * n + (t[2] * n) \div Limb) \div Limb

\* ------------------------------------------------------------ seed

tableSize == 512

\* The indices of a table of tableSize entries.
Index == 0 .. tableSize - 1

\* A Uint8Array is the sequence of its entries: entry n is element n + 1.
At(t, n) == t[n + 1]

\* t with entry n set to v and entry m set to w, in this order.
Put2(t, n, v, m, w) == [[t EXCEPT ![n + 1] = v] EXCEPT ![m + 1] = w]

\* new Uint8Array(tableSize): all entries 0.
NewTable == [n \in 1 .. tableSize |-> 0]

\* let p = new Uint8Array(tableSize); p[i] = i for i < tableSize / 2,
\* lines 183-187.
InitialP ==
    [n \in 1 .. tableSize \div 2 |-> n - 1] \o [n \in 1 .. tableSize \div 2 |-> 0]

\* Faulty variant of drawIndex: the draw scaled by 256 instead of 256 - i.
drawIndexUnscaled(i, t) == i + TruncScaled(t, 256)

\* let r = i + ~~(random() * (256 - i)), line 190, for the number t / 2^32
\* that random() returned.
drawIndex(i, t) == i + TruncScaled(t, 256 - i)

\* [p[r], p[i]] = [p[i], p[r]], line 191: reads both entries, then writes
\* p[r], then p[i].  a: the generator state the draw left.
exchanged(i, r, st, a) ==
    [a |-> a,
     rs |-> Append(st.rs, r),
     p |-> Put2(st.p, r, At(st.p, i), i, At(st.p, r))]

\* Lines 190-191 for the draw d.
stepped(i, st, d) == exchanged(i, drawIndex(i, d.t), st, d.a)

\* One iteration of the shuffle loop, lines 190-191, on st = the working
\* array p, the generator state a and the indices rs drawn so far.
shuffleStep(i, st) == stepped(i, st, random(st.a))

\* The iterations lo <= i < hi of the shuffle loop, in order.  The range is
\* cut in four and the tuple holds the state after each quarter, so that TLC
\* finishes a quarter before it starts the next and never holds 255 pending
\* iterations.
RECURSIVE shuffleRange(_, _, _)
shuffleRange(lo, hi, st) ==
    IF hi <= lo + 1 THEN (IF lo < hi THEN shuffleStep(lo, st) ELSE st)
    ELSE LET q == (hi - lo + 3) \div 4
             s1 == shuffleRange(lo, Min(lo + q, hi), st)
             s2 == shuffleRange(Min(lo + q, hi), Min(lo + 2 * q, hi), s1)
             s3 == shuffleRange(Min(lo + 2 * q, hi), Min(lo + 3 * q, hi), s2)
             s4 == shuffleRange(Min(lo + 3 * q, hi), hi, s3)
         IN <<s1, s2, s3, s4>>[4]

\* for (let i = 0; i < tableSize / 2 - 1; i++), lines 189-192.
shuffle(a, p) ==
    shuffleRange(0, tableSize \div 2 - 1, [p |-> p, a |-> a, rs |-> <<>>])

\* Faulty variant of fillPerm: perm[i] = p[i], without the mask.
fillPermUnmasked(p, pm) ==
    [n \in 1 .. Len(pm) |-> IF n - 1 < tableSize THEN At(p, n - 1) ELSE pm[n]]

\* Faulty variant of fillPerm: perm[i] += p[i & 255], in a Uint8Array.
fillPermAccumulate(p, pm) ==
    [n \in 1 .. Len(pm) |->
        IF n - 1 < tableSize THEN (pm[n] + At(p, (n - 1) % 256)) % 256 ELSE pm[n]]

\* Faulty variant of fillPermMod12: the loop stops at tableSize / 2.
fillPermMod12Half(newPerm, pm12) ==
    [n \in 1 .. Len(pm12) |->
        IF n - 1 < tableSize \div 2 THEN newPerm[n] % 12 ELSE pm12[n]]

\* for (let i = 0; i < tableSize; i++), lines 194-197: perm[i] = p[i & 255],
\* then permMod12[i] = perm[i] % 12 read back from the entry just written.
\* The iterations are independent; an entry the loop does not reach keeps
\* its value.
fillPerm(p, pm) ==
    [n \in 1 .. Len(pm) |-> IF n - 1 < tableSize THEN At(p, (n - 1) % 256) ELSE pm[n]]

fillPermMod12(newPerm, pm12) ==
    [n \in 1 .. Len(pm12) |-> IF n - 1 < tableSize THEN newPerm[n] % 12 ELSE pm12[n]]

\* The working array seed(k) has built when its shuffle loop ends, with the
\* indices drawn, for every seed value of the model.  It depends on k alone
\* and is tabulated so that TLC computes each shuffle once.
Shuffled == [k \in Seeds |-> shuffle(splitmix32(k), InitialP)]

\* The tables the loop of lines 194-197 leaves for the new perm np, with the
\* indices rs the shuffle drew.
tabled(np, pm12, rs) ==
    [perm |-> np, permMod12 |-> fillPermMod12(np, pm12), rs |-> rs]

\* Lines 194-197 for the outcome s of the shuffle.
filled(s, pm, pm12) == tabled(fillPerm(s.p, pm), pm12, s.rs)

\* seed(k) on the current tables: the tables it leaves and the indices drawn.
seed(k, pm, pm12) == filled(Shuffled[k], pm, pm12)

\* ------------------------------------------------------------ numbers
\* IEEE-754 rounding is not modelled.  A JavaScript number of noise and fbm
\* is its exact real value, an element (a + b * sqrt(3)) / 6^e of Q(sqrt 3)
\* with integers a and b of any size: Math.sqrt(3.0) is sqrt(3), and
\* + - * are exact.

\* An integer of any size: limbs in base Base, least significant first, all
\* in 0 .. Base - 1 except the last, which carries the sign.  Zero is <<0>>.
Base == 10 ^ 4

\* The limbs but the last of a non-empty sequence.
Front(d) == SubSeq(d, 1, Len(d) - 1)

\* Drops a redundant last limb: a zero, or a -1 above a non-zero limb.
RECURSIVE Strip(_)
Strip(d) ==
    IF Len(d) <= 1 THEN d
    ELSE IF d[Len(d)] = 0 THEN Strip(Front(d))
    ELSE IF d[Len(d)] = -1 /\ d[Len(d) - 1] > 0
         THEN Strip(Front(Front(d)) \o <<d[Len(d) - 1] - Base>>)
    ELSE d

\* Carries from limb n upward, until the limbs end and the carry is a sign
\* limb, 0 or -1.
RECURSIVE Carry(_, _, _)
Carry(d, n, c) ==
    IF n <= Len(d)
    THEN <<(d[n] + c) % Base>> \o Carry(d, n + 1, (d[n] + c) \div Base)
    ELSE IF c \in {0, -1} THEN <<c>>
    ELSE <<c % Base>> \o Carry(d, n + 1, c \div Base)

\* The integer with limb values d (any integers), in the form above.
Norm(d) == Strip(Carry(d, 1, 0))

\* Limb n of d, 0 above its length.
LimbOf(d, n) == IF n <= Len(d) THEN d[n] ELSE 0

\* x + y, limb by limb along the longer operand.
RECURSIVE BigAdd(_, _)
BigAdd(x, y) ==
    IF Len(x) < Len(y) THEN BigAdd(y, x)
    ELSE Norm([n \in 1 .. Len(x) |-> x[n] + LimbOf(y, n)])

BigNeg(x) == Norm([n \in 1 .. Len(x) |-> 0 - x[n]])

BigSub(x, y) == BigAdd(x, BigNeg(y))

\* The sum over i = lo .. hi of x[i] * y[k + 1 - i].
RECURSIVE Conv(_, _, _, _, _)
Conv(x, y, k, lo, hi) ==
    IF lo > hi THEN 0 ELSE x[lo] * y[k + 1 - lo] + Conv(x, y, k, lo + 1, hi)

BigMul(x, y) ==
    IF x = <<0>> \/ y = <<0>> THEN <<0>>
    ELSE Norm([k \in 1 .. Len(x) + Len(y) - 1 |->
                 Conv(x, y, k, Max(1, k + 1 - Len(y)), Min(k, Len(x)))])

\* -1, 0 or 1.
BigSign(x) ==
    IF x[Len(x)] > 0 THEN 1 ELSE IF x[Len(x)] < 0 THEN -1 ELSE 0

\* An Int below Base * Base in size, as an integer of any size.
Big(n) == Norm(<<n>>)

\* An integer of at most two limbs, as an Int.
Small(x) == IF Len(x) = 1 THEN x[1] ELSE x[1] + Base * x[2]

\* The sum of the limbs of x from limb n up.
RECURSIVE LimbSum(_, _)
LimbSum(x, n) == IF n > Len(x) THEN 0 ELSE x[n] + LimbSum(x, n + 1)

\* The integer made of the limbs of x from limb n up, mod 6 (Base mod 6 is
\* 4, and so is every power of it).
TailMod6(x, n) == (LimbOf(x, n) + 4 * LimbSum(x, n + 1)) % 6

BigMod6(x) == TailMod6(x, 1)

\* floor(x / 6) by long division: the remainder that enters limb n from
\* above is the tail above it mod 6.
BigDiv6(x) == Norm([n \in 1 .. Len(x) |-> (TailMod6(x, n + 1) * Base + x[n]) \div 6])

\* (a + b * sqrt(3)) / 6^e in lowest terms: e is the least exponent that
\* leaves a and b integers, so that equal numbers are equal records.
RECURSIVE Reduce(_)
Reduce(x) ==
    IF x.e > 0 /\ BigMod6(x.a) = 0 /\ BigMod6(x.b) = 0
    THEN Reduce([e |-> x.e - 1, a |-> BigDiv6(x.a), b |-> BigDiv6(x.b)])
    ELSE x

\* (a + b * sqrt(3)) / 6^e for Ints a and b.
Num(a, b, e) == Reduce([e |-> e, a |-> Big(a), b |-> Big(b)])

\* The integer n as a number.
Int2Num(n) == Num(n, 0, 0)

\* The integer x times 6^k, k >= 0.
Scale(x, k) == BigMul(x, Big(6 ^ k))

\* x + y, over the larger of the two denominators.
RECURSIVE Plus(_, _)
Plus(x, y) ==
    IF x.e < y.e THEN Plus(y, x)
    ELSE Reduce([e |-> x.e,
                 a |-> BigAdd(x.a, Scale(y.a, x.e - y.e)),
                 b |-> BigAdd(x.b, Scale(y.b, x.e - y.e))])

Neg(x) == [e |-> x.e, a |-> BigNeg(x.a), b |-> BigNeg(x.b)]

Minus(x, y) == Plus(x, Neg(y))

Times(x, y) ==
    Reduce([e |-> x.e + y.e,
            a |-> BigAdd(BigMul(x.a, y.a), BigMul(Big(3), BigMul(x.b, y.b))),
            b |-> BigAdd(BigMul(x.a, y.b), BigMul(x.b, y.a))])

\* x / 6.
Sixth(x) == Reduce([e |-> x.e + 1, a |-> x.a, b |-> x.b])

\* The sign of a + b * sqrt(3): that of a and b when they agree, and else
\* that of the one which is larger in a^2 against 3 * b^2.
Sign(x) ==
    LET sa == BigSign(x.a)
        sb == BigSign(x.b)
    IN IF sb = 0 THEN sa
       ELSE IF sa = 0 \/ sa = sb THEN sb
       ELSE LET d == BigSign(BigSub(BigMul(x.a, x.a), BigMul(Big(3), BigMul(x.b, x.b))))
            IN IF d > 0 THEN sa ELSE sb

\* x < y and x > y on numbers.
Less(x, y) == Sign(Minus(x, y)) < 0

Greater(x, y) == Sign(Minus(x, y)) > 0

\* Math.floor(x), for x small enough that a, b and 6^e are Ints: the integer
\* i with i <= x < i + 1, sought between the floors of the bounds that
\* 1 < sqrt(3) < 2 gives.
Floor(x) ==
    LET a == Small(x.a)
        b == Small(x.b)
        d == 6 ^ x.e
        lo == (a + Min(b, 2 * b)) \div d
        hi == (a + Max(b, 2 * b)) \div d
    IN CHOOSE i \in lo .. hi :
           /\ ~Less(x, Int2Num(i))
           /\ Less(x, Int2Num(i + 1))

Zero == Int2Num(0)

One == Int2Num(1)

Two == Int2Num(2)

\* 0.5
HalfNum == Num(3, 0, 1)

\* 70.0, the scale of line 144.
Seventy == Int2Num(70)

\* Math.sqrt(3.0)
Sqrt3 == Num(0, 1, 0)

\* const F2 = 0.5 * (Math.sqrt(3.0) - 1.0), line 18.
F2 == Times(HalfNum, Minus(Sqrt3, One))

\* const G2 = (3.0 - Math.sqrt(3.0)) / 6.0, line 19.
G2 == Sixth(Minus(Int2Num(3), Sqrt3))

\* ------------------------------------------------------------ noise

\* What reading a typed array outside its bounds gives, and the index NaN
\* that adding it to a number gives: noise never throws.
Undefined == -1

\* t[n]
Read(t, n) == IF n \in Index THEN At(t, n) ELSE Undefined

\* n + v for a table entry v.
Offset(n, v) == IF v = Undefined THEN Undefined ELSE n + v

\* Faulty variant of and255: the mask of the table size, i &= 511.
and511(i) == i % 512

\* i &= 255, lines 110-111, for an integer i.
and255(i) == i % 256

\* grad(hash, x, y), lines 61-67.  hash & 0x0F of undefined is 0.
grad(hash, x, y) ==
    LET h == IF hash = Undefined THEN 0 ELSE hash % 16
        u == IF h < 8 THEN x ELSE y
        v == IF h < 4 THEN y ELSE Zero
    IN Plus(IF h % 2 = 0 THEN u ELSE Neg(u),
            IF (h \div 2) % 2 = 0 THEN v ELSE Neg(v))

\* t0 * t0 * t0 * t0 * grad(...), lines 122-123, for tt = t0 * t0.
cornerFalloff(tt, g) == Times(Times(tt, tt), g)

\* The branch on t0 of one corner, lines 119-124.
cornerBranch(gi, x, y, t0) ==
    IF Less(t0, Zero) THEN Zero
    ELSE cornerFalloff(Times(t0, t0), grad(gi, x, y))

\* The contribution of one corner, lines 118-124, 126-132 and 134-140.
corner(gi, x, y) ==
    cornerBranch(gi, x, y, Minus(Minus(HalfNum, Times(x, x)), Times(y, y)))

\* The index i + di + perm[j + dj] at which lines 113-115 read permMod12,
\* for the masked cell (i, j) and the corner offset (di, dj).
hashIndex(i, di, j, dj, pm) == Offset(i + di, Read(pm, j + dj))

\* noise(xin, yin) runs in the steps below, each on the record r of the
\* locals assigned so far, to which it adds its own.

\* let s = (xin + yin) * F2, line 83.
skewed(xin, yin) == [xin |-> xin, yin |-> yin, s |-> Times(Plus(xin, yin), F2)]

\* i = Math.floor(xin + s); j = Math.floor(yin + s), lines 84-85: the cell,
\* i and j before the mask of lines 110-111.
celled(r) == r @@ [cell |-> <<Floor(Plus(r.xin, r.s)), Floor(Plus(r.yin, r.s))>>]

\* let t = (i + j) * G2, line 86.
unskewed(r) == r @@ [t |-> Times(Int2Num(r.cell[1] + r.cell[2]), G2)]

\* x0 = xin - (i - t); y0 = yin - (j - t), lines 89-90.
distanced(r) ==
    r @@ [x0 |-> Minus(r.xin, Minus(Int2Num(r.cell[1]), r.t)),
          y0 |-> Minus(r.yin, Minus(Int2Num(r.cell[2]), r.t))]

\* if (x0 > y0) [i1, j1] = [1, 0] else [i1, j1] = [0, 1], lines 95-99, for
\* the outcome lower of the comparison.
ordered(r, lower) ==
    r @@ [i1 |-> IF lower THEN 1 ELSE 0, j1 |-> IF lower THEN 0 ELSE 1]

\* x1, y1, x2, y2, lines 104-107.
cornered(r) ==
    r @@ [x1 |-> Plus(Minus(r.x0, Int2Num(r.i1)), G2),
          y1 |-> Plus(Minus(r.y0, Int2Num(r.j1)), G2),
          x2 |-> Plus(Minus(r.x0, One), Times(Two, G2)),
          y2 |-> Plus(Minus(r.y0, One), Times(Two, G2))]

\* i &= 255; j &= 255, lines 110-111.
masked(r) == r @@ [i |-> and255(r.cell[1]), j |-> and255(r.cell[2])]

\* The indices at which lines 113-115 read perm and permMod12.
indexed(r, pm) ==
    r @@ [permReads |-> <<r.j, r.j + r.j1, r.j + 1>>,
          mod12Reads |-> <<hashIndex(r.i, 0, r.j, 0, pm),
                           hashIndex(r.i, r.i1, r.j, r.j1, pm),
                           hashIndex(r.i, 1, r.j, 1, pm)>>]

\* gi0, gi1, gi2, lines 113-115.
hashed(r, pm12) ==
    r @@ [gi |-> <<Read(pm12, r.mod12Reads[1]),
                   Read(pm12, r.mod12Reads[2]),
                   Read(pm12, r.mod12Reads[3])>>]

\* n0, n1, n2, lines 118-140.
contributed(r) ==
    r @@ [n |-> <<corner(r.gi[1], r.x0, r.y0),
                  corner(r.gi[2], r.x1, r.y1),
                  corner(r.gi[3], r.x2, r.y2)>>]

\* return 70.0 * (n0 + n1 + n2), line 144.
summed(r) == r @@ [value |-> Times(Seventy, Plus(Plus(r.n[1], r.n[2]), r.n[3]))]

\* The comparison x0 > y0 of line 95 and the steps after it.
simplexed(r, pm, pm12) ==
    summed(contributed(hashed(indexed(masked(cornered(
        ordered(r, Greater(r.x0, r.y0)))), pm), pm12)))

\* noise(xin, yin), lines 79-145, on the tables pm and pm12: its arguments,
\* the values of its locals, the indices at which it reads perm and
\* permMod12, and the value it returns.
noise(xin, yin, pm, pm12) ==
    simplexed(distanced(unskewed(celled(skewed(xin, yin)))), pm, pm12)

\* ------------------------------------------------------------ fbm

\* The binding of the name noise when fbm runs: the module's noise on the
\* current tables, or a test stub that returns 1.0 for every call.
Module(pm, pm12) == [stub |-> FALSE, perm |-> pm, permMod12 |-> pm12]

Stub == [stub |-> TRUE]

\* noise(x, y) as called from fbm, line 42.
sample(env, x, y) ==
    IF env.stub THEN One ELSE noise(x, y, env.perm, env.permMod12).value

\* Faulty variant of fbmStep: amplitude and frequency updated before use.
fbmStepEarlyUpdate(st, x, y, persistence, lacunarity, env) ==
    LET s43 == [st EXCEPT !.amplitude = Times(@, persistence)]
        s44 == [s43 EXCEPT !.frequency = Times(@, lacunarity)]
        xf == Times(x, s44.frequency)
        yf == Times(y, s44.frequency)
    IN [s44 EXCEPT !.samples = Append(@, <<xf, yf>>),
                   !.total = Plus(@, Times(sample(env, xf, yf), s44.amplitude))]

\* One iteration of the loop of fbm, lines 42-44, on st = the noise calls
\* made so far, total, amplitude and frequency, one assignment after the
\* other.
fbmStep(st, x, y, persistence, lacunarity, env) ==
    LET xf == Times(x, st.frequency)
        yf == Times(y, st.frequency)
        s42 == [st EXCEPT !.samples = Append(@, <<xf, yf>>),
                          !.total = Plus(@, Times(sample(env, xf, yf), st.amplitude))]
        s43 == [s42 EXCEPT !.amplitude = Times(@, persistence)]
        s44 == [s43 EXCEPT !.frequency = Times(@, lacunarity)]
    IN s44

\* Faulty variant of fbmLoop: i <= octaves.
RECURSIVE fbmLoopInclusive(_, _, _, _, _, _, _, _)
fbmLoopInclusive(i, octaves, st, x, y, persistence, lacunarity, env) ==
    IF i <= octaves
    THEN fbmLoopInclusive(i + 1, octaves,
                          fbmStep(st, x, y, persistence, lacunarity, env),
                          x, y, persistence, lacunarity, env)
    ELSE st

\* for (let i = 0; i < octaves; i++), lines 41-45, from iteration i on.
RECURSIVE fbmLoop(_, _, _, _, _, _, _, _)
fbmLoop(i, octaves, st, x, y, persistence, lacunarity, env) ==
    IF i < octaves
    THEN fbmLoop(i + 1, octaves, fbmStep(st, x, y, persistence, lacunarity, env),
                 x, y, persistence, lacunarity, env)
    ELSE st

\* return total, line 47, with the noise calls made.
returned(st) == [total |-> st.total, samples |-> st.samples]

\* fbm(x, y, octaves, amplitude, frequency, persistence, lacunarity), lines
\* 38-48: the total returned and the noise calls made.
fbm(x, y, octaves, amplitude, frequency, persistence, lacunarity, env) ==
    returned(fbmLoop(0, octaves,
                     [samples |-> <<>>, total |-> Zero,
                      amplitude |-> amplitude, frequency |-> frequency],
                     x, y, persistence, lacunarity, env))

\* The fBm of the README, part_000 lines 42-52: the loop of fbm with
\* frequency updated before amplitude.
fBmStep(st, x, y, persistence, lacunarity, env) ==
    LET xf == Times(x, st.frequency)
        yf == Times(y, st.frequency)
        s46 == [st EXCEPT !.samples = Append(@, <<xf, yf>>),
                          !.total = Plus(@, Times(sample(env, xf, yf), st.amplitude))]
        s47 == [s46 EXCEPT !.frequency = Times(@, lacunarity)]
        s48 == [s47 EXCEPT !.amplitude = Times(@, persistence)]
    IN s48

RECURSIVE fBmLoop(_, _, _, _, _, _, _, _)
fBmLoop(i, octaves, st, x, y, persistence, lacunarity, env) ==
    IF i < octaves
    THEN fBmLoop(i + 1, octaves, fBmStep(st, x, y, persistence, lacunarity, env),
                 x, y, persistence, lacunarity, env)
    ELSE st

fBm(x, y, octaves, amplitude, frequency, persistence, lacunarity, env) ==
    fBmLoop(0, octaves,
            [samples |-> <<>>, total |-> Zero,
             amplitude |-> amplitude, frequency |-> frequency],
            x, y, persistence, lacunarity, env).total

\* ------------------------------------------------------------ inputs

\* h / 2 for an integer h.
Halves(h) == Num(3 * h, 0, 1)

\* The coordinates passed to noise, in halves: integer points on and off
\* the diagonal x + y = 0, points inside cells on both sides of x0 = y0, and
\* points whose cell index is negative, 255 or above 255 before the mask.
NoiseInputs ==
    {<<0, 0>>, <<2, 0>>, <<0, 2>>, <<2, 2>>, <<2, -2>>, <<-2, 2>>,
     <<1, 0>>, <<0, 1>>, <<-1, -1>>, <<-2, 0>>, <<-1, 1>>, <<1, 3>>,
     <<295, -1>>, <<591, 591>>}

\* The arguments passed to fbm: coordinates in halves, then octaves,
\* amplitude, frequency, persistence and lacunarity.
FbmInputs ==
    {[x |-> 1, y |-> 0, octaves |-> n, amplitude |-> a, frequency |-> f,
      persistence |-> p, lacunarity |-> l] :
        n \in 0 .. MaxOctaves, a \in {One}, f \in {One, Two}, p \in {HalfNum},
        l \in {Two}}

\* ------------------------------------------------------------ state machine

NoCall == [op |-> "none"]

\* What a call is remembered by when the next call is a seed: its name, and
\* the seed value of a seed call.
Summary(call) == IF call.op = "seed" THEN <<"seed", call.k>> ELSE <<call.op>>

Init ==
    /\ perm = NewTable
    /\ permMod12 = NewTable
    /\ last = NoCall
    /\ calls = 0
    /\ rngA = 0
    /\ rngOut = <<0, 0>>
    /\ rngN = 0

\* A call seed(k).  last: the call, the indices its shuffle drew and the
\* call it came after.
Seed(k) ==
    /\ calls < MaxCalls
    /\ calls' = calls + 1
    /\ LET s == seed(k, perm, permMod12)
       IN /\ perm' = s.perm
          /\ permMod12' = s.permMod12
          /\ last' = [op |-> "seed", k |-> k, rs |-> s.rs, after |-> Summary(last)]
    /\ UNCHANGED rngVars

\* Faulty variant of Noise: a query on unseeded tables seeds them with 0.
NoiseLazySeed(c) ==
    /\ calls < MaxCalls
    /\ calls' = calls + 1
    /\ LET t == IF perm = NewTable THEN seed(0, perm, permMod12)
                ELSE [perm |-> perm, permMod12 |-> permMod12]
       IN /\ perm' = t.perm
          /\ permMod12' = t.permMod12
          /\ last' = [op |-> "noise", c |-> c,
                      r |-> noise(Halves(c[1]), Halves(c[2]), t.perm, t.permMod12)]
    /\ UNCHANGED rngVars

\* A call noise(c[1] / 2, c[2] / 2).
Noise(c) ==
    /\ calls < MaxCalls
    /\ calls' = calls + 1
    /\ last' = [op |-> "noise", c |-> c,
                r |-> noise(Halves(c[1]), Halves(c[2]), perm, permMod12)]
    /\ UNCHANGED <<perm, permMod12, rngA, rngOut, rngN>>

\* A call fbm(...) with the arguments in.
Fbm(in) ==
    /\ calls < MaxCalls
    /\ calls' = calls + 1
    /\ last' = [op |-> "fbm", in |-> in,
                r |-> fbm(Halves(in.x), Halves(in.y), in.octaves, in.amplitude,
                          in.frequency, in.persistence, in.lacunarity,
                          Module(perm, permMod12))]
    /\ UNCHANGED <<perm, permMod12, rngA, rngOut, rngN>>

Next ==
    \/ \E k \in Seeds : Seed(k)
    \/ \E c \in NoiseInputs : Noise(c)
    \/ \E in \in FbmInputs : Fbm(in)

Spec == Init /\ [][Next]_vars

\* ------------------------------------------------------------ generator

RngInit ==
    /\ perm = NewTable
    /\ permMod12 = NewTable
    /\ last = NoCall
    /\ calls = 0
    /\ rngA \in {splitmix32(k) : k \in Seeds}
    /\ rngOut = <<0, 0>>
    /\ rngN = 0

Draw ==
    /\ rngN < MaxDraws
    /\ LET d == random(rngA)
       IN /\ rngA' = d.a
          /\ rngOut' = d.t
    /\ rngN' = rngN + 1
    /\ UNCHANGED <<perm, permMod12, last, calls>>

RngNext == Draw

SpecRng == RngInit /\ [][RngNext]_vars

\* ------------------------------------------------------------ claims

\* The integer k as a pair of halves.
IsIntegerPoint(c) == c[1] % 2 = 0 /\ c[2] % 2 = 0

\* C1: for all integers (i, j) and every table state a seed call leaves,
\* noise(i, j) is exactly 0.  The code does not do this: its noise is
\* exactly 0 at the points of the simplex lattice, an integer point is one
\* of them only if x + y = 0, and the value at (1, 0) is not 0.
C1_LatticeZero ==
    (last.op = "noise" /\ perm # NewTable /\ IsIntegerPoint(last.c)) =>
        last.r.value = Zero

\* C2: in every reachable state permMod12[n] = perm[n] % 12 for n in
\* 0 .. 511 and perm[n] = perm[n + 256] for n in 0 .. 255.
C2_TablesWellFormed ==
    /\ \A n \in Index : At(permMod12, n) = At(perm, n) % 12
    /\ \A n \in 0 .. 255 : At(perm, n) = At(perm, n + 256)

C2_Witness ==
    /\ last.op = "seed"
    /\ \E n \in 0 .. 255 :
          /\ At(perm, n + 256) >= 12
          /\ At(permMod12, n + 256) = At(perm, n) - 12 * (At(perm, n) \div 12)

\* C3: the tables a call seed(k) leaves are those seed(k) builds from new
\* tables, whatever call came before it.
C3_SeedHistoryIndependent ==
    last.op = "seed" =>
        LET fresh == seed(last.k, NewTable, NewTable)
        IN perm = fresh.perm /\ permMod12 = fresh.permMod12

C3_Witness ==
    /\ last.op = "seed"
    /\ last.k = 1337
    /\ last.after = <<"seed", -1>>
    /\ At(perm, 1) # 255
    /\ At(perm, 129) = 255

\* C4: after seed(k), perm[0 .. 255] holds every value 0 .. 255 exactly
\* once, the shuffle has drawn 255 indices, and the index r drawn at step i
\* satisfies i <= r <= 255.
C4_SeedIsPermutation ==
    last.op = "seed" =>
        /\ {At(perm, n) : n \in 0 .. 255} = 0 .. 255
        /\ Len(last.rs) = 255
        /\ \A i \in 0 .. 254 : i <= last.rs[i + 1] /\ last.rs[i + 1] <= 255

C4_Witness ==
    /\ last.op = "seed"
    /\ \E i \in 0 .. 254 : last.rs[i + 1] = 255
    /\ \E i \in 0 .. 254 : last.rs[i + 1] = i
    /\ \E n \in 0 .. 255 : At(perm, n) # n

\* x to the power k.
RECURSIVE Pow(_, _)
Pow(x, k) == IF k = 0 THEN One ELSE Times(x, Pow(x, k - 1))

\* Octave k of the sum of C5: noise(x * f_k, y * f_k) * a_k with
\* a_k = amplitude * persistence^k and f_k = frequency * lacunarity^k.
OctaveTerm(in, k, env) ==
    LET a == Times(in.amplitude, Pow(in.persistence, k))
        f == Times(in.frequency, Pow(in.lacunarity, k))
    IN Times(sample(env, Times(Halves(in.x), f), Times(Halves(in.y), f)), a)

\* The sum of octaves 0 .. n - 1.
RECURSIVE OctaveSum(_, _, _)
OctaveSum(in, n, env) ==
    IF n = 0 THEN Zero
    ELSE Plus(OctaveSum(in, n - 1, env), OctaveTerm(in, n - 1, env))

\* C5: fbm with n octaves makes exactly n noise calls, at (x * f_k, y * f_k)
\* for k = 0 .. n - 1, and returns the sum of noise(x * f_k, y * f_k) * a_k;
\* the README's order of the two updates gives the same total; with n = 1
\* the total is noise(x * frequency, y * frequency) * amplitude; and with a
\* noise that returns 1, amplitude 1, persistence 0.5 and n = 4 it is 1.875.
C5_FbmIsOctaveSum ==
    last.op = "fbm" =>
        LET in == last.in
            x == Halves(in.x)
            y == Halves(in.y)
            env == Module(perm, permMod12)
        IN /\ Len(last.r.samples) = in.octaves
           /\ \A k \in 1 .. in.octaves :
                 LET f == Times(in.frequency, Pow(in.lacunarity, k - 1))
                 IN last.r.samples[k] = <<Times(x, f), Times(y, f)>>
           /\ last.r.total = OctaveSum(in, in.octaves, env)
           /\ last.r.total = fBm(x, y, in.octaves, in.amplitude, in.frequency,
                                 in.persistence, in.lacunarity, env)
           /\ in.octaves = 1 =>
                 last.r.total =
                     Times(noise(Times(x, in.frequency), Times(y, in.frequency),
                                 perm, permMod12).value,
                           in.amplitude)
           /\ fbm(x, y, 4, One, in.frequency, HalfNum, in.lacunarity, Stub).total
                 = Num(405, 0, 3)

C5_Witness ==
    /\ last.op = "fbm"
    /\ last.in.octaves = 3
    /\ Len(last.r.samples) = 3
    /\ last.r.total # Zero
    /\ perm # NewTable

\* C6: fbm with 0 octaves returns 0 and makes no noise call, on any tables.
C6_FbmZeroOctaves ==
    (last.op = "fbm" /\ last.in.octaves = 0) =>
        last.r.total = Zero /\ last.r.samples = <<>>

C6_Witness ==
    /\ last.op = "fbm"
    /\ last.in.octaves = 0
    /\ last.in.frequency = Two
    /\ perm # NewTable
    /\ last.r.total = Zero

\* ToUint32(a) for an int32 a, as limbs.
ToUint32(a) == <<UHi(a), ULo(a)>>

\* The unsigned 32-bit operations C7 is stated in, on limbs <<hi, lo>>.
\* u + v modulo 2^32.
WrapAdd(u, v) ==
    LET lo == u[2] + v[2]
        hi == u[1] + v[1] + (lo \div Limb)
    IN <<hi % Limb, lo % Limb>>

\* u >> n with zero fill, 1 <= n <= 16.
ShiftRight(u, n) ==
    <<u[1] \div (2 ^ n), (u[2] \div (2 ^ n)) + (u[1] % (2 ^ n)) * (2 ^ (16 - n))>>

\* x XOR y on 16 bits, from bit k up.
RECURSIVE Xor16(_, _, _)
Xor16(x, y, k) ==
    IF k = 16 THEN 0
    ELSE (IF (x \div (2 ^ k)) % 2 = (y \div (2 ^ k)) % 2 THEN 0 ELSE 2 ^ k)
         + Xor16(x, y, k + 1)

WrapXor(u, v) == <<Xor16(u[1], v[1], 0), Xor16(u[2], v[2], 0)>>

\* The four bytes of u, least significant first.
Bytes(u) == <<u[2] % 256, u[2] \div 256, u[1] % 256, u[1] \div 256>>

\* u * v modulo 2^32: the four low columns of the byte-wise product.
WrapMul(u, v) ==
    LET b == Bytes(u)
        c == Bytes(v)
        k1 == b[1] * c[1]
        k2 == b[1] * c[2] + b[2] * c[1] + (k1 \div 256)
        k3 == b[1] * c[3] + b[2] * c[2] + b[3] * c[1] + (k2 \div 256)
        k4 == b[1] * c[4] + b[2] * c[3] + b[3] * c[2] + b[4] * c[1] + (k3 \div 256)
    IN <<(k4 % 256) * 256 + (k3 % 256), (k2 % 256) * 256 + (k1 % 256)>>

\* T of C7 for the advanced state a.
UnsignedT(a) ==
    LET t1 == WrapMul(WrapXor(a, ShiftRight(a, 16)), <<Mul1 \div Limb, Mul1 % Limb>>)
        t2 == WrapMul(WrapXor(t1, ShiftRight(t1, 15)), <<Mul2 \div Limb, Mul2 % Limb>>)
    IN WrapXor(t2, ShiftRight(t2, 15))

\* C7: a draw advances the state by 0x9e3779b9 modulo 2^32 and returns
\* T / 2^32 for the T of the unsigned definition, 0 <= T <= 2^32 - 1.
C7_SplitMixUnsigned ==
    [][rngN' = rngN + 1 =>
          /\ ToUint32(rngA') = WrapAdd(ToUint32(rngA), <<GoldenHi, GoldenLo>>)
          /\ rngOut' = UnsignedT(ToUint32(rngA'))
          /\ rngOut'[1] \in 0 .. Limb - 1
          /\ rngOut'[2] \in 0 .. Limb - 1]_vars

C7_Witness ==
    /\ rngN = MaxDraws
    /\ rngA < 0
    /\ rngOut[1] >= SignBit

\* C8: a noise or fbm call leaves perm and permMod12 as they are, and a
\* noise call that repeats the coordinates of the noise call before it
\* returns the same result.
C8_NoiseReadOnly ==
    [][last'.op \in {"noise", "fbm"} =>
          /\ perm' = perm
          /\ permMod12' = permMod12
          /\ (last.op = "noise" /\ last'.op = "noise" /\ last'.c = last.c) =>
                last'.r = last.r]_vars

C8_Witness ==
    /\ last.op = "noise"
    /\ last.r.value # Zero
    /\ perm = seed(1337, NewTable, NewTable).perm
    /\ permMod12 = seed(1337, NewTable, NewTable).permMod12

\* C9: every index at which noise reads perm and permMod12 is in 0 .. 511,
\* with j + j1 <= 256 and i + i1 + perm[j + j1] <= 511 for the masked i and
\* j, and every gradient index is in 0 .. 11, on the initial tables too.
C9_NoiseReadsInBounds ==
    last.op = "noise" =>
        LET r == last.r
        IN /\ r.i \in 0 .. 255 /\ r.j \in 0 .. 255
           /\ \A n \in 1 .. 3 :
                 /\ r.permReads[n] \in 0 .. 256
                 /\ r.mod12Reads[n] \in Index
                 /\ r.gi[n] \in 0 .. 11
           /\ r.permReads = <<r.j, r.j + r.j1, r.j + 1>>
           /\ r.mod12Reads = <<r.i + At(perm, r.j),
                               r.i + r.i1 + At(perm, r.j + r.j1),
                               r.i + 1 + At(perm, r.j + 1)>>
           /\ r.gi = <<At(permMod12, r.mod12Reads[1]),
                       At(permMod12, r.mod12Reads[2]),
                       At(permMod12, r.mod12Reads[3])>>

C9_Witness ==
    /\ last.op = "noise"
    /\ last.r.cell = <<511, 511>>
    /\ last.r.permReads[3] = 256
    /\ last.r.mod12Reads[3] >= 256

\* The gradient indices gi0, gi1, gi2 of lines 113-115 for the masked cell
\* (i, j) and the middle corner (i1, j1).
cornerHashes(i, j, i1, j1) ==
    <<Read(permMod12, hashIndex(i, 0, j, 0, perm)),
      Read(permMod12, hashIndex(i, i1, j, j1, perm)),
      Read(permMod12, hashIndex(i, 1, j, 1, perm))>>

\* The shifts of a cell by 256 in i, in j, or in both.
CellShifts == {<<256, 0>>, <<0, 256>>, <<256, 256>>, <<-256, 0>>, <<0, -256>>}

\* The values i + di and j + dj take for i, j in 0 .. 255 and the corner
\* offsets: every pair of them is the corner of some cell.
CornerCoords == {i + di : i \in 0 .. 255, di \in {0, 1}}

\* C10: on the tables of the initial state and on those every seed call
\* leaves (noise and fbm write neither table), for every i, j in 0 .. 255
\* and every corner offset (di, dj), that is for every ci = i + di and
\* cj = j + dj, the entry of permMod12 that noise reads through the
\* duplicated tables is the entry at the index computed modulo 256; and the
\* gradient indices of a noise call are those of its cell shifted by 256 in
\* i or in j.
C10_DuplicatedTableHash ==
    /\ last.op \in {"none", "seed"} =>
          \A ci \in CornerCoords, cj \in CornerCoords :
              Read(permMod12, hashIndex(ci, 0, cj, 0, perm))
                 = At(permMod12, ((ci % 256) + At(perm, cj % 256)) % 256)
    /\ last.op = "noise" =>
          \A sh \in CellShifts :
              cornerHashes(and255(last.r.cell[1] + sh[1]),
                           and255(last.r.cell[2] + sh[2]),
                           last.r.i1, last.r.j1) = last.r.gi

C10_Witness ==
    /\ last.op = "seed"
    /\ \E j \in 0 .. 255 :
          /\ hashIndex(255, 1, j, 1, perm) = 511
          /\ Read(permMod12, hashIndex(255, 1, j, 1, perm)) = At(permMod12, 255)
    /\ hashIndex(255, 1, 255, 1, perm) = 256 + At(perm, 0)

====
